---- MODULE Spec2Model ----
(***************************************************************************)
(* A model of foilgen.py: the NACA 4-digit airfoil generator.              *)
(*                                                                         *)
(* Strings are sequences of one-character strings.  Arrays are sequences   *)
(* indexed from 1, so Python index k is index k+1 here.                    *)
(*                                                                         *)
(* The floats of the 2D profile are fixed-point integers: the integer v    *)
(* stands for v / S.  Products and quotients are rounded to the nearest    *)
(* unit, symmetrically in the sign, as IEEE rounding is.  The floats that  *)
(* reach the 3D stage can be non-finite (the chord is any float argparse   *)
(* accepts, inf and nan included): they are records, see Fin, NaN, Inf.    *)
(***************************************************************************)
EXTENDS Integers, Sequences, FiniteSets, TLC

(***************************************************************************)
(* Bounds of the model.                                                    *)
(***************************************************************************)
\* --points ranges over 1..MaxPoints in a run of main (and 21, and 2^53)
MaxPoints == 7
\* generate_naca4 alone is handed 0..MaxSurface points per surface
MaxSurface == 5
\* totals handed to compute_n_per_surface_from_total: 0..MaxTotal and
\* 2^53 + (0..MaxTotal)
MaxTotal == 40
\* the strings handed to parse_naca have at most MaxCodeLen characters
MaxCodeLen == 5
\* the 2D loops handed to map_to_3d alone have at most MaxLoop points
MaxLoop == 2

(***************************************************************************)
(* Fixed-point arithmetic.                                                 *)
(***************************************************************************)
S == 100 * 100

\* math.pi
PI == 31416

Abs(a) == IF a < 0 THEN -a ELSE a

Max(a, b) == IF a >= b THEN a ELSE b

\* a / b for b > 0, rounded to the nearest integer, halves away from zero
RDiv(a, b) == IF a >= 0 THEN (2 * a + b) \div (2 * b)
              ELSE -((2 * (-a) + b) \div (2 * b))

\* the float product a * b
FMul(a, b) == RDiv(a * b, S)

\* the float quotient a / b, b # 0
FDiv(a, b) == IF b > 0 THEN RDiv(a * S, b) ELSE RDiv(-(a * S), -b)

RECURSIVE SqrtSearch(_, _, _)
\* the largest r in lo..hi with r * r <= v
SqrtSearch(v, lo, hi) ==
    IF lo >= hi THEN lo
    ELSE LET mid == (lo + hi + 1) \div 2
         IN  IF mid * mid <= v THEN SqrtSearch(v, mid, hi)
             ELSE SqrtSearch(v, lo, mid - 1)

\* np.sqrt(a) for a >= 0
FSqrt(a) ==
    LET v == a * S
        r == SqrtSearch(v, 0, 4 * S)
    IN  IF v - r * r > r THEN r + 1 ELSE r

\* cos(b) for 0 <= b <= pi/2, by its Taylor series in Horner form
CosSeries(b) ==
    LET b2 == FMul(b, b)
        t5 == S - RDiv(b2, 90)
        t4 == S - RDiv(FMul(b2, t5), 56)
        t3 == S - RDiv(FMul(b2, t4), 30)
        t2 == S - RDiv(FMul(b2, t3), 12)
    IN  S - RDiv(FMul(b2, t2), 2)

\* np.cos(b) for -pi <= b <= pi
Cos(b) ==
    LET a == Abs(b)
    IN  IF 2 * a <= PI THEN CosSeries(a) ELSE -CosSeries(PI - a)

\* np.sin(b) for -pi/2 <= b <= pi/2, by its Taylor series in Horner form
Sin(b) ==
    LET b2 == FMul(b, b)
        t4 == S - RDiv(b2, 72)
        t3 == S - RDiv(FMul(b2, t4), 42)
        t2 == S - RDiv(FMul(b2, t3), 20)
        t1 == S - RDiv(FMul(b2, t2), 6)
    IN  FMul(b, t1)

\* arctan(d) for |d| <= 1: one halving of the angle, then the series
ArcTanSmall(d) ==
    LET h  == FDiv(d, S + FSqrt(S + FMul(d, d)))
        h2 == FMul(h, h)
        t4 == S - RDiv(7 * h2, 9)
        t3 == S - RDiv(5 * FMul(h2, t4), 7)
        t2 == S - RDiv(3 * FMul(h2, t3), 5)
        t1 == S - RDiv(FMul(h2, t2), 3)
    IN  2 * FMul(h, t1)

\* np.arctan(d)
ArcTan(d) ==
    IF Abs(d) <= S THEN ArcTanSmall(d)
    ELSE IF d > 0 THEN RDiv(PI, 2) - ArcTanSmall(FDiv(S, d))
    ELSE -RDiv(PI, 2) - ArcTanSmall(FDiv(S, d))

(***************************************************************************)
(* Characters and strings.                                                 *)
(***************************************************************************)
\* ASCII digits the inputs are drawn from
AsciiDigits == {"0", "1", "2", "4", "9"}

\* "ar3" is U+0663 ARABIC-INDIC DIGIT THREE: a decimal digit that is not ASCII
DecimalDigits == AsciiDigits \cup {"ar3"}

\* "sup2" is U+00B2 SUPERSCRIPT TWO: str.isdigit() holds of it, int() rejects it
DigitChars == DecimalDigits \cup {"sup2"}

WhiteSpace == {" ", "\t"}

\* the value int() gives a decimal digit
DigitValue(c) ==
    CASE c = "0" -> 0
      [] c = "1" -> 1
      [] c = "2" -> 2
      [] c = "4" -> 4
      [] c = "9" -> 9
      [] c = "ar3" -> 3
      [] OTHER -> 0

RECURSIVE lstrip(_)
lstrip(s) == IF s # <<>> /\ Head(s) \in WhiteSpace THEN lstrip(Tail(s)) ELSE s

RECURSIVE rstrip(_)
rstrip(s) ==
    IF s # <<>> /\ s[Len(s)] \in WhiteSpace
    THEN rstrip(SubSeq(s, 1, Len(s) - 1)) ELSE s

\* a strip() that forgets the trailing whitespace
strip_leading_only(s) == lstrip(s)

\* str.strip()
strip(s) == rstrip(lstrip(s))

\* str.isdigit()
isdigit(s) == s # <<>> /\ \A i \in 1..Len(s) : s[i] \in DigitChars

\* whether int(s) returns rather than raising ValueError, for s of digit characters
IntOk(s) == s # <<>> /\ \A i \in 1..Len(s) : s[i] \in DecimalDigits

RECURSIVE IntVal(_)
\* int(s) where IntOk(s)
IntVal(s) ==
    IF s = <<>> THEN 0
    ELSE 10 * IntVal(SubSeq(s, 1, Len(s) - 1)) + DigitValue(s[Len(s)])

\* str.upper() on the characters a selector is drawn from
UpperChar(c) ==
    CASE c = "x" -> "X"
      [] c = "y" -> "Y"
      [] c = "z" -> "Z"
      [] c = "w" -> "W"
      [] OTHER -> c

upper(s) == [i \in 1..Len(s) |-> UpperChar(s[i])]

(***************************************************************************)
(* parse_naca                                                              *)
(***************************************************************************)
Raise(exc, msg) == [ok |-> FALSE, exc |-> exc, msg |-> msg]

parse_naca(code_arg) ==
    LET code == strip(code_arg)
    IN  IF Len(code) # 4 \/ ~isdigit(code)
        THEN Raise("ValueError", "Input must be 4 digits!")
        ELSE IF ~IntOk(<<code[1]>>) \/ ~IntOk(<<code[2]>>)
                \/ ~IntOk(SubSeq(code, 3, 4))
        THEN Raise("ValueError", "invalid literal for int()")
        ELSE [ok |-> TRUE,
              m  |-> RDiv(IntVal(<<code[1]>>) * S, 100),
              p  |-> RDiv(IntVal(<<code[2]>>) * S, 10),
              t  |-> RDiv(IntVal(SubSeq(code, 3, 4)) * S, 100)]

(***************************************************************************)
(* cosine_spacing, thickness_distribution, camber_line                     *)
(***************************************************************************)
\* np.linspace(0.0, math.pi, n): i * step, the last sample set to the stop
linspace(n) ==
    LET step == RDiv(PI, n - 1)
    IN  [i \in 1..n |-> IF i = n THEN PI ELSE (i - 1) * step]

cosine_spacing(n) ==
    LET beta == linspace(n)
    IN  [i \in 1..n |-> FMul(S \div 2, S - Cos(beta[i]))]

thickness_distribution(x, t) ==
    [i \in 1..Len(x) |->
        LET xi    == x[i]
            sqrtx == FSqrt(Max(xi, 0))
            x2    == FMul(xi, xi)
            x3    == FMul(x2, xi)
            x4    == FMul(x3, xi)
        IN  FMul(FMul(5 * S, t),
                 FMul(2969, sqrtx) - FMul(1260, xi) - FMul(3516, x2)
                 + FMul(2843, x3) - FMul(1015, x4))]

\* idx1 = x < p + 1e-12: on multiples of 1/S this is x <= p
idx1(x, p) == {i \in 1..Len(x) : x[i] <= p}

\* idx2 = ~idx1
idx2(x, p) == (1..Len(x)) \ idx1(x, p)

zeros_like(x) == [i \in 1..Len(x) |-> 0]

\* an early return that tests the camber alone
symmetric_camber_only(m, p) == m = 0

\* the early return on a symmetric profile
symmetric(m, p) == m = 0 \/ p = 0

\* yc, dyc, and what was evaluated on the way: fwd and aft are the indexes
\* the forward and the aft formula were evaluated at
camber_line(x, m, p) ==
    IF symmetric(m, p)
    THEN [ok |-> TRUE, yc |-> zeros_like(x), dyc |-> zeros_like(x),
          fwd |-> {}, aft |-> {}]
    ELSE LET i1 == idx1(x, p)
             i2 == idx2(x, p)
             p2 == FMul(p, p)
             q2 == FMul(S - p, S - p)
         IN  IF (i1 # {} /\ p2 = 0) \/ (i2 # {} /\ q2 = 0)
             THEN [ok |-> FALSE, yc |-> <<>>, dyc |-> <<>>,
                   fwd |-> i1, aft |-> i2]
             ELSE [ok  |-> TRUE,
                   yc  |-> [i \in 1..Len(x) |->
                             IF i \in i1
                             THEN FMul(FDiv(m, p2),
                                       FMul(2 * p, x[i]) - FMul(x[i], x[i]))
                             ELSE FMul(FDiv(m, q2),
                                       (S - 2 * p) + FMul(2 * p, x[i])
                                       - FMul(x[i], x[i]))],
                   dyc |-> [i \in 1..Len(x) |->
                             IF i \in i1
                             THEN FMul(FDiv(2 * m, p2), p - x[i])
                             ELSE FMul(FDiv(2 * m, q2), p - x[i])],
                   fwd |-> i1, aft |-> i2]

(***************************************************************************)
(* compute_n_per_surface_from_total                                        *)
(*                                                                         *)
(* Python integers are unbounded and (int + 1) / 2 is a float, a double    *)
(* with 53 significant bits.  An integer here is k * 2^52 + l, written     *)
(* Big(k, l), with |l| far below 2^52; the totals are below 2^52 (k = 0)   *)
(* or from 2^53 on (k = 2).                                                *)
(***************************************************************************)
Big(k, l) == [e52 |-> k, lo |-> l]

BigGeq(a, b) == a.e52 > b.e52 \/ (a.e52 = b.e52 /\ a.lo >= b.lo)

BigMax(a, b) == IF BigGeq(a, b) THEN a ELSE b

\* the float a / 2 for an integer a = Big(k, l), k even and l >= 0, as the
\* integer part and the number of halves: below 2^52 every half is a double;
\* from 2^52 on doubles are integers, and a tie goes to the even one
true_div_2(a) ==
    LET k == a.e52 \div 2
        q == a.lo \div 2
    IN  IF a.lo % 2 = 0 THEN [e52 |-> k, int |-> q, halves |-> 0]
        ELSE IF k = 0 THEN [e52 |-> k, int |-> q, halves |-> 1]
        ELSE IF q % 2 = 0 THEN [e52 |-> k, int |-> q, halves |-> 0]
        ELSE [e52 |-> k, int |-> q + 1, halves |-> 0]

\* math.ceil
ceil(f) == Big(f.e52, f.int + f.halves)

\* the count with the quotient rounded down, (total + 1) // 2
compute_n_floor(total_points) ==
    BigMax(Big(0, 3), Big(total_points.e52 \div 2, (total_points.lo + 1) \div 2))

compute_n_per_surface_from_total(total_points) ==
    LET n_est == ceil(true_div_2(Big(total_points.e52, total_points.lo + 1)))
    IN  BigMax(Big(0, 3), n_est)

(***************************************************************************)
(* generate_naca4                                                          *)
(***************************************************************************)
\* an upper surface left in parameter order
not_reversed(s) == s

\* s[::-1]
reversed(s) == [i \in 1..Len(s) |-> s[Len(s) + 1 - i]]

\* the guard of the loop assembly: drop the duplicated leading-edge point
tail_branch(xl) == IF Len(xl) > 1 THEN "drop_first" ELSE "as_is"

\* a lower surface that keeps its leading-edge point
lower_whole(xl) == xl

\* xl_tail, yl_tail
lower_tail(xl) == IF Len(xl) > 1 THEN SubSeq(xl, 2, Len(xl)) ELSE xl

\* np.concatenate([a, b])
concatenate(a, b) == a \o b

\* max(3, int(n_points_per_surface))
clamp_n(n_points_per_surface) == BigMax(Big(0, 3), n_points_per_surface)

NoCamber == [ok |-> FALSE, yc |-> <<>>, dyc |-> <<>>, fwd |-> {}, aft |-> {}]

\* what generate_naca4 raises: nothing is returned
GenRaise(exc, msg) ==
    [ok |-> FALSE, exc |-> exc, msg |-> msg, n |-> 0, x |-> <<>>, y |-> <<>>,
     params |-> <<0, 0, 0>>, xs |-> <<>>, cam |-> NoCamber,
     xu |-> <<>>, yu |-> <<>>, xl |-> <<>>, yl |-> <<>>, tail |-> "none"]

\* x and y are x_combined and y_combined, params is (m, p, t); the other
\* fields are the locals of the call: n, the parameter sequence xs, the camber
\* evaluation, the two surfaces and the branch the loop assembly took
surfaces(prm, n) ==
    LET xs    == cosine_spacing(n)
        cam   == camber_line(xs, prm.m, prm.p)
    IN  IF ~cam.ok
        THEN [GenRaise("ZeroDivisionError", "float division by zero")
                EXCEPT !.cam = cam, !.xs = xs, !.n = n]
        ELSE
        LET yt    == thickness_distribution(xs, prm.t)
            theta == [i \in 1..n |-> ArcTan(cam.dyc[i])]
            xu    == [i \in 1..n |-> xs[i] - FMul(yt[i], Sin(theta[i]))]
            yu    == [i \in 1..n |-> cam.yc[i] + FMul(yt[i], Cos(theta[i]))]
            xl    == [i \in 1..n |-> xs[i] + FMul(yt[i], Sin(theta[i]))]
            yl    == [i \in 1..n |-> cam.yc[i] - FMul(yt[i], Cos(theta[i]))]
        IN  [ok |-> TRUE, exc |-> "", msg |-> "", n |-> n,
             x |-> concatenate(reversed(xu), lower_tail(xl)),
             y |-> concatenate(reversed(yu), lower_tail(yl)),
             params |-> <<prm.m, prm.p, prm.t>>, xs |-> xs, cam |-> cam,
             xu |-> xu, yu |-> yu, xl |-> xl, yl |-> yl,
             tail |-> tail_branch(xl)]

\* np.linspace cannot allocate 2^52 doubles or more (32 PiB): MemoryError
generate_naca4(code, n_points_per_surface) ==
    LET prm == parse_naca(code)
        n   == clamp_n(n_points_per_surface)
    IN  IF ~prm.ok THEN GenRaise(prm.exc, prm.msg)
        ELSE IF n.e52 > 0 THEN GenRaise("MemoryError", "Unable to allocate array")
        ELSE surfaces(prm, n.lo)

(***************************************************************************)
(* The floats of the 3D stage.                                             *)
(***************************************************************************)
Fin(v) == [k |-> "fin", v |-> v]

NaN == [k |-> "nan", v |-> 0]

\* sgn is 1 or -1
Inf(sgn) == [k |-> "inf", v |-> sgn]

Sign(v) == IF v > 0 THEN 1 ELSE IF v < 0 THEN -1 ELSE 0

\* the IEEE product: nan absorbs, inf * 0 is nan
FloatMul(a, b) ==
    IF a.k = "nan" \/ b.k = "nan" THEN NaN
    ELSE IF a.k = "fin" /\ b.k = "fin" THEN Fin(FMul(a.v, b.v))
    ELSE IF Sign(a.v) * Sign(b.v) = 0 THEN NaN
    ELSE Inf(Sign(a.v) * Sign(b.v))

\* np.isfinite
isfinite(a) == a.k = "fin"

(***************************************************************************)
(* map_to_3d, validate_geometry                                            *)
(***************************************************************************)
Axes == {<<"X">>, <<"Y">>, <<"Z">>}

\* the columns with x and y exchanged when the normal is X
axis_columns_swapped(norm, x2d, y2d, scale) ==
    LET zeros == [i \in 1..Len(x2d) |-> Fin(0)]
        sx    == [i \in 1..Len(x2d) |-> FloatMul(scale, Fin(x2d[i]))]
        sy    == [i \in 1..Len(y2d) |-> FloatMul(scale, Fin(y2d[i]))]
    IN  IF norm = <<"X">> THEN <<zeros, sy, sx>>
        ELSE IF norm = <<"Y">> THEN <<sx, zeros, sy>>
        ELSE <<sx, sy, zeros>>

\* X, Y and Z of map_to_3d, by the branch taken on norm
axis_columns(norm, x2d, y2d, scale) ==
    LET zeros == [i \in 1..Len(x2d) |-> Fin(0)]
        sx    == [i \in 1..Len(x2d) |-> FloatMul(scale, Fin(x2d[i]))]
        sy    == [i \in 1..Len(y2d) |-> FloatMul(scale, Fin(y2d[i]))]
    IN  IF norm = <<"X">> THEN <<zeros, sx, sy>>
        ELSE IF norm = <<"Y">> THEN <<sx, zeros, sy>>
        ELSE <<sx, sy, zeros>>

\* np.vstack([X, Y, Z]).T
vstackT(cols) == [i \in 1..Len(cols[1]) |-> <<cols[1][i], cols[2][i], cols[3][i]>>]

map_to_3d(x2d, y2d, normal_axis, chord_length) ==
    LET norm == upper(normal_axis)
    IN  IF norm \notin Axes
        THEN [ok |-> FALSE, exc |-> "ValueError",
              msg |-> "normal_axis must be X, Y, or Z", coords |-> <<>>]
        ELSE [ok |-> TRUE, exc |-> "", msg |-> "",
              coords |-> vstackT(axis_columns(norm, x2d, y2d, chord_length))]

\* coords.min(axis=0)[a], coords.max(axis=0)[a], on finite coordinates
col_min(coords, a) ==
    CHOOSE v \in {coords[i][a].v : i \in 1..Len(coords)} :
        \A i \in 1..Len(coords) : v <= coords[i][a].v

col_max(coords, a) ==
    CHOOSE v \in {coords[i][a].v : i \in 1..Len(coords)} :
        \A i \in 1..Len(coords) : v >= coords[i][a].v

\* spans = maxs - mins
spans(coords) == [a \in 1..3 |-> col_max(coords, a) - col_min(coords, a)]

\* np.any(spans == 0): a zero span on some axis
degenerate_any(coords) == \E a \in 1..3 : spans(coords)[a] = 0

\* np.all(spans == 0)
degenerate(coords) == \A a \in 1..3 : spans(coords)[a] = 0

validate_geometry(coords) ==
    IF ~(\A i \in 1..Len(coords) : \A a \in 1..3 : isfinite(coords[i][a]))
    THEN Raise("ValueError", "Generated coordinates contain NaN or infinite values!")
    ELSE IF degenerate(coords)
    THEN Raise("ValueError", "Degenerate geometry: all output points identical!")
    ELSE [ok |-> TRUE, exc |-> "", msg |-> ""]

(***************************************************************************)
(* save_txt and plot_airfoil: the file system and matplotlib are the       *)
(* environment, which lets each call succeed or fail.                      *)
(***************************************************************************)
NoFile == [state |-> "absent", rows |-> <<>>]

\* np.savetxt: the file holds one row per point, or the call raises
save_txt(coords, io_ok) ==
    IF io_ok THEN [ok |-> TRUE, file |-> [state |-> "written", rows |-> coords]]
    ELSE [ok |-> FALSE, file |-> NoFile]

\* what matplotlib does in a call: the import, the rendering calls
\* (subplots .. tight_layout), fig.savefig and plt.show each work or raise
PlotEnvs == [mpl : BOOLEAN, render : BOOLEAN, save : BOOLEAN, show : BOOLEAN]

\* raised is what the call raises ("none" when it returns), out the
\* warnings it prints itself, png whether the PNG was saved
plot_airfoil(out_png, show, env) ==
    IF ~env.mpl
    THEN [raised |-> "ImportError", out |-> <<>>, png |-> FALSE]
    ELSE IF ~env.render
    THEN [raised |-> "Exception", out |-> <<>>, png |-> FALSE]
    ELSE [raised |-> "none",
          out |-> (IF out_png # "None" /\ ~env.save
                   THEN <<"Warning! failed to save plot to">> ELSE <<>>)
                  \o (IF show /\ ~env.show
                      THEN <<"Warning! plt.show() failed.">> ELSE <<>>),
          png |-> out_png # "None" /\ env.save]

(***************************************************************************)
(* main: what each try/except does with the outcome of its call.           *)
(***************************************************************************)
\* lines 193-197
after_generate(g) ==
    IF g.ok THEN [pc |-> "embed", out |-> <<>>]
    ELSE [pc |-> "exited", out |-> <<"Error generating airfoil:">>]

\* line 199: the call is in no try block
after_embed(r) ==
    IF r.ok THEN [pc |-> "validate", out |-> <<>>]
    ELSE [pc |-> "crashed", out |-> <<"Traceback">>]

\* a handler that reports the validation error and goes on
after_validate_no_exit(v) ==
    IF v.ok THEN [pc |-> "save", out |-> <<>>]
    ELSE [pc |-> "save", out |-> <<"Validation error! ">>]

\* lines 201-205
after_validate(v) ==
    IF v.ok THEN [pc |-> "save", out |-> <<>>]
    ELSE [pc |-> "exited", out |-> <<"Validation error! ">>]

\* lines 207-211
after_save(r) ==
    IF r.ok THEN [pc |-> "plot", out |-> <<>>]
    ELSE [pc |-> "exited", out |-> <<"Failed to save file! ">>]

\* a handler that catches ImportError alone
after_plot_import_only(r, plot_filename) ==
    IF r.raised = "none"
    THEN [pc |-> "summary",
          out |-> IF plot_filename # "None" THEN <<"Plot saved to">> ELSE <<>>]
    ELSE IF r.raised = "ImportError"
    THEN [pc |-> "summary",
          out |-> <<"No .png output: matplotlib is required for plotting!",
                    "Skipping plotting step.">>]
    ELSE [pc |-> "crashed", out |-> <<"Traceback">>]

\* lines 223-232
after_plot(r, plot_filename) ==
    IF r.raised = "none"
    THEN [pc |-> "summary",
          out |-> IF plot_filename # "None" THEN <<"Plot saved to">> ELSE <<>>]
    ELSE IF r.raised = "ImportError"
    THEN [pc |-> "summary",
          out |-> <<"No .png output: matplotlib is required for plotting!",
                    "Skipping plotting step.">>]
    ELSE [pc |-> "summary",
          out |-> <<"Plotting encountered an error! ", "Continuing without plot.">>]

\* sys.exit(1), and the exit status of an uncaught exception
exit_status(next_pc) ==
    IF next_pc \in {"exited", "crashed"} THEN "1" ELSE "running"

(***************************************************************************)
(* The inputs.                                                             *)
(***************************************************************************)
ValidCodes ==
    {<<a, b>> \o c : a \in {"0", "2"}, b \in {"0", "4"},
                     c \in {<<"0", "0">>, <<"1", "2">>}}

\* what is typed or passed as the code
CodeInputs ==
    ValidCodes \cup {<<"2", "4", "1">>, <<"2", "4", "a", "2">>,
                     <<" ", "0", "0", "1", "2">>, <<>>}

\* argparse: choices=['X','Y','Z','x','y','z']
NormalChoices == {<<"X">>, <<"Y">>, <<"Z">>, <<"x">>, <<"y">>, <<"z">>}

\* what is typed at the prompt for the axis
NormalInputs == {<<"Z">>, <<" ", "y">>, <<"w">>}

\* float(): any float, inf and nan included
Chords == {Fin(0), Fin(S), Fin(-(2 * S)), Inf(1), NaN}

\* type=int: any integer
Points == {Big(0, t) : t \in (1..MaxPoints) \cup {21}} \cup {Big(2, 0)}

(***************************************************************************)
(* The state.                                                              *)
(***************************************************************************)
VARIABLES
    pc,                      \* where main is, or which call a function is at
    naca_code, normal, chord,
    total_points_requested, n_per_surface,
    gen,                     \* what generate_naca4 returned or raised
    coords3d,
    val,                     \* what validate_geometry returned or raised
    file,                    \* the point file
    plot,                    \* the plotting step
    stdout,                  \* the lines printed
    stages,                  \* the stages called so far, in order
    exit_code,
    arg, ret                 \* a function called alone: its argument, its result

vars == <<pc, naca_code, normal, chord, total_points_requested, n_per_surface,
          gen, coords3d, val, file, plot, stdout, stages, exit_code, arg, ret>>

NoResult == [ok |-> FALSE, exc |-> "", msg |-> ""]

NoPlot == [attempted |-> FALSE, raised |-> "none", out |-> <<>>, png |-> FALSE]

\* main's variables before main runs
MainFresh ==
    /\ naca_code = <<>>
    /\ normal = <<>>
    /\ chord = Fin(0)
    /\ total_points_requested = Big(0, 0)
    /\ n_per_surface = Big(0, 0)
    /\ gen = GenRaise("", "")
    /\ coords3d = <<>>
    /\ val = NoResult
    /\ file = NoFile
    /\ plot = NoPlot
    /\ stdout = <<>>
    /\ stages = <<>>
    /\ exit_code = "running"

mainVars == <<naca_code, normal, chord, total_points_requested, n_per_surface,
              gen, coords3d, file, plot, stdout, stages, exit_code>>

(***************************************************************************)
(* main                                                                    *)
(***************************************************************************)
Init ==
    /\ pc = "read_code"
    /\ MainFresh
    /\ arg = <<>>
    /\ ret = NoResult

\* lines 170-172: args.naca, or the stripped answer to the prompt
ReadCode ==
    /\ pc = "read_code"
    /\ \E src \in {"argv", "stdin"}, s \in CodeInputs :
          /\ src = "argv" => s # <<>>
          /\ naca_code' = IF src = "argv" THEN s ELSE strip(s)
    /\ pc' = "read_normal"
    /\ UNCHANGED <<normal, chord, total_points_requested, n_per_surface, gen,
                   coords3d, val, file, plot, stdout, stages, exit_code, arg, ret>>

\* lines 174-178
ReadNormal ==
    /\ pc = "read_normal"
    /\ \/ \E s \in NormalChoices : normal' = upper(s)
       \/ \E s \in NormalInputs : normal' = upper(strip(s))
    /\ pc' = "read_chord"
    /\ UNCHANGED <<naca_code, chord, total_points_requested, n_per_surface, gen,
                   coords3d, val, file, plot, stdout, stages, exit_code, arg, ret>>

\* lines 180-187: args.chord, or float() of the answer to the prompt
ReadChord ==
    /\ pc = "read_chord"
    /\ \E c \in Chords : chord' = c
    /\ pc' = "count"
    /\ UNCHANGED <<naca_code, normal, total_points_requested, n_per_surface, gen,
                   coords3d, val, file, plot, stdout, stages, exit_code, arg, ret>>

\* lines 183-187: float() raises on the answer
ReadChordInvalid ==
    /\ pc = "read_chord"
    /\ stdout' = Append(stdout, "Invalid chord length! aborting.")
    /\ pc' = "exited"
    /\ exit_code' = "1"
    /\ UNCHANGED <<naca_code, normal, chord, total_points_requested,
                   n_per_surface, gen, coords3d, val, file, plot, stages, arg, ret>>

\* lines 190-191
CountPoints ==
    /\ pc = "count"
    /\ \E points \in Points :
          /\ total_points_requested' = BigMax(Big(0, 3), points)
          /\ n_per_surface' =
                compute_n_per_surface_from_total(BigMax(Big(0, 3), points))
    /\ pc' = "generate"
    /\ UNCHANGED <<naca_code, normal, chord, gen, coords3d, val, file, plot,
                   stdout, stages, exit_code, arg, ret>>

\* lines 193-197
Generate ==
    /\ pc = "generate"
    /\ LET g == generate_naca4(naca_code, n_per_surface)
       IN  /\ gen' = g
           /\ pc' = after_generate(g).pc
           /\ stdout' = stdout \o after_generate(g).out
           /\ exit_code' = exit_status(after_generate(g).pc)
    /\ stages' = Append(stages, "generate")
    /\ UNCHANGED <<naca_code, normal, chord, total_points_requested,
                   n_per_surface, coords3d, val, file, plot, arg, ret>>

\* line 199
Embed ==
    /\ pc = "embed"
    /\ LET r == map_to_3d(gen.x, gen.y, normal, chord)
       IN  /\ coords3d' = r.coords
           /\ pc' = after_embed(r).pc
           /\ stdout' = stdout \o after_embed(r).out
           /\ exit_code' = exit_status(after_embed(r).pc)
    /\ stages' = Append(stages, "embed")
    /\ UNCHANGED <<naca_code, normal, chord, total_points_requested,
                   n_per_surface, gen, val, file, plot, arg, ret>>

\* lines 201-205
Validate ==
    /\ pc = "validate"
    /\ LET v == validate_geometry(coords3d)
       IN  /\ val' = v
           /\ pc' = after_validate(v).pc
           /\ stdout' = stdout \o after_validate(v).out
           /\ exit_code' = exit_status(after_validate(v).pc)
    /\ stages' = Append(stages, "validate")
    /\ UNCHANGED <<naca_code, normal, chord, total_points_requested,
                   n_per_surface, gen, coords3d, file, plot, arg, ret>>

\* lines 207-211
Save ==
    /\ pc = "save"
    /\ \E io_ok \in BOOLEAN :
          LET r == save_txt(coords3d, io_ok)
          IN  /\ file' = r.file
              /\ pc' = after_save(r).pc
              /\ stdout' = stdout \o after_save(r).out
              /\ exit_code' = exit_status(after_save(r).pc)
    /\ stages' = Append(stages, "write")
    /\ UNCHANGED <<naca_code, normal, chord, total_points_requested,
                   n_per_surface, gen, coords3d, val, plot, arg, ret>>

\* lines 213-232
Plot ==
    /\ pc = "plot"
    /\ \E no_save_plot \in BOOLEAN, no_show \in BOOLEAN, env \in PlotEnvs :
          LET plot_filename == IF no_save_plot THEN "None" ELSE "png"
              r == plot_airfoil(plot_filename, ~no_show, env)
          IN  /\ plot' = [attempted |-> TRUE, raised |-> r.raised,
                          out |-> r.out, png |-> r.png]
              /\ pc' = after_plot(r, plot_filename).pc
              /\ stdout' = stdout \o r.out \o after_plot(r, plot_filename).out
              /\ exit_code' = exit_status(after_plot(r, plot_filename).pc)
    /\ stages' = Append(stages, "plot")
    /\ UNCHANGED <<naca_code, normal, chord, total_points_requested,
                   n_per_surface, gen, coords3d, val, file, arg, ret>>

\* lines 234-237, and the return of main
Summary ==
    /\ pc = "summary"
    /\ stdout' = stdout \o <<"Generated NACA", "Requested total points:", "Saved">>
    /\ pc' = "done"
    /\ exit_code' = "0"
    /\ UNCHANGED <<naca_code, normal, chord, total_points_requested,
                   n_per_surface, gen, coords3d, val, file, plot, stages, arg, ret>>

Next ==
    \/ ReadCode
    \/ ReadNormal
    \/ ReadChord
    \/ ReadChordInvalid
    \/ CountPoints
    \/ Generate
    \/ Embed
    \/ Validate
    \/ Save
    \/ Plot
    \/ Summary

Spec == Init /\ [][Next]_vars

(***************************************************************************)
(* compute_n_per_surface_from_total called alone, on the totals            *)
(* 0..MaxTotal and 2^53 + (0..MaxTotal).                                   *)
(***************************************************************************)
Totals == {Big(k, l) : k \in {0, 2}, l \in 0..MaxTotal}

InitTotal ==
    /\ pc = "call_compute_n"
    /\ MainFresh
    /\ arg \in Totals
    /\ ret = Big(0, 0)

CallComputeN ==
    /\ pc = "call_compute_n"
    /\ ret' = compute_n_per_surface_from_total(arg)
    /\ pc' = "compute_n_returned"
    /\ UNCHANGED <<mainVars, val, arg>>

NextTotal == CallComputeN

SpecTotal == InitTotal /\ [][NextTotal]_vars

(***************************************************************************)
(* parse_naca called alone, on every string of at most MaxCodeLen          *)
(* characters of ParseChars.                                               *)
(***************************************************************************)
ParseChars == {"0", "2", "ar3", "sup2", " ", "a"}

Strings(chars, maxlen) == UNION {[1..n -> chars] : n \in 0..maxlen}

InitParse ==
    /\ pc = "call_parse_naca"
    /\ MainFresh
    /\ arg \in Strings(ParseChars, MaxCodeLen)
    /\ ret = NoResult

CallParseNaca ==
    /\ pc = "call_parse_naca"
    /\ ret' = parse_naca(arg)
    /\ pc' = "parse_naca_returned"
    /\ UNCHANGED <<mainVars, val, arg>>

NextParse == CallParseNaca

SpecParse == InitParse /\ [][NextParse]_vars

(***************************************************************************)
(* generate_naca4 called alone, on every code of four of the ASCII digits  *)
(* (and two codes parse_naca rejects) and 0..MaxSurface points per surface.*)
(***************************************************************************)
GenCodes == [1..4 -> AsciiDigits] \cup {<<"2", "4", "1">>, <<"2", "a", "1", "2">>}

InitGen ==
    /\ pc = "call_generate_naca4"
    /\ MainFresh
    /\ arg \in [code : GenCodes, n : 0..MaxSurface]
    /\ ret = GenRaise("", "")

CallGenerate ==
    /\ pc = "call_generate_naca4"
    /\ ret' = generate_naca4(arg.code, Big(0, arg.n))
    /\ pc' = "generate_naca4_returned"
    /\ UNCHANGED <<mainVars, val, arg>>

NextGen == CallGenerate

SpecGen == InitGen /\ [][NextGen]_vars

(***************************************************************************)
(* map_to_3d called alone, then validate_geometry on what it returns:      *)
(* on every loop of 1..MaxLoop points with coordinates -1, 0 or 1, and on  *)
(* the loop of code 0000.                                                  *)
(***************************************************************************)
LoopValues == {-S, 0, S}

Loops == UNION {[1..n -> LoopValues \X LoopValues] : n \in 1..MaxLoop}

\* a loop as the pairs (x, y) of its points
LoopOf(g) == [i \in 1..Len(g.x) |-> <<g.x[i], g.y[i]>>]

Loop0000 == LoopOf(generate_naca4(<<"0", "0", "0", "0">>, Big(0, 3)))

Selectors ==
    NormalChoices \cup {<<"w">>, <<>>, <<" ", "x">>, <<"x", "y">>}

InitEmbed ==
    /\ pc = "call_map_to_3d"
    /\ MainFresh
    /\ arg \in [loop : Loops \cup {Loop0000}, normal_axis : Selectors,
                chord_length : Chords]
    /\ ret = [ok |-> FALSE, exc |-> "", msg |-> "", coords |-> <<>>]

CallMapTo3d ==
    /\ pc = "call_map_to_3d"
    /\ ret' = map_to_3d([i \in 1..Len(arg.loop) |-> arg.loop[i][1]],
                        [i \in 1..Len(arg.loop) |-> arg.loop[i][2]],
                        arg.normal_axis, arg.chord_length)
    /\ pc' = IF ret'.ok THEN "call_validate_geometry" ELSE "map_to_3d_raised"
    /\ UNCHANGED <<mainVars, val, arg>>

CallValidateGeometry ==
    /\ pc = "call_validate_geometry"
    /\ val' = validate_geometry(ret.coords)
    /\ pc' = "validate_geometry_returned"
    /\ UNCHANGED <<mainVars, arg, ret>>

NextEmbed == CallMapTo3d \/ CallValidateGeometry

SpecEmbed == InitEmbed /\ [][NextEmbed]_vars

(***************************************************************************)
(* C1.  compute_n_per_surface_from_total                                   *)
(***************************************************************************)
\* 2 * n - 1
TwiceMinusOne(n) == Big(2 * n.e52, 2 * n.lo - 1)

\* C1: for every total t >= 3 the count n the function returns has
\* 2n - 1 >= t, and no smaller count n' >= 3 has 2n' - 1 >= t.
C1_CoversTotalAndMinimal ==
    (pc = "compute_n_returned" /\ BigGeq(arg, Big(0, 3))) =>
        /\ BigGeq(TwiceMinusOne(ret), arg)
        /\ \A d \in 1..MaxTotal :
              LET smaller == Big(ret.e52, ret.lo - d)
              IN  BigGeq(smaller, Big(0, 3)) =>
                      ~BigGeq(TwiceMinusOne(smaller), arg)

(***************************************************************************)
(* C2.  The number of points a successful run writes                       *)
(***************************************************************************)
\* C2: a run of main that succeeds holds 2n - 1 points, n the per-surface
\* count: the least n >= 3 with 2n - 1 >= the requested total; at least 5
\* points and at least the requested total; 21 requested give n = 11 and 21.
C2_OutputCount ==
    pc = "done" =>
        /\ gen.ok
        /\ n_per_surface.e52 = 0 /\ total_points_requested.e52 = 0
        /\ n_per_surface.lo >= 3
        /\ 2 * n_per_surface.lo - 1 >= total_points_requested.lo
        /\ (n_per_surface.lo > 3 =>
                2 * (n_per_surface.lo - 1) - 1 < total_points_requested.lo)
        /\ Len(coords3d) = 2 * n_per_surface.lo - 1
        /\ Len(file.rows) = 2 * n_per_surface.lo - 1
        /\ Len(coords3d) >= 5
        /\ Len(coords3d) >= total_points_requested.lo
        /\ (total_points_requested.lo = 21 =>
                n_per_surface.lo = 11 /\ Len(coords3d) = 21)

C2_Witness ==
    /\ pc = "done"
    /\ total_points_requested = Big(0, 21)
    /\ Len(coords3d) = 21

(***************************************************************************)
(* C3.  parse_naca accepts exactly the four-digit codes                    *)
(***************************************************************************)
FourDecimalDigits(s) == Len(s) = 4 /\ \A i \in 1..4 : s[i] \in DecimalDigits

\* C3 as stated: parse_naca raises ValueError on every string that is not
\* exactly four decimal digits, and returns parameters only for four
\* decimal digits.
C3_ExactlyFourDigits ==
    pc = "parse_naca_returned" =>
        /\ ret.ok <=> FourDecimalDigits(arg)
        /\ ~ret.ok => ret.exc = "ValueError"

\* s is four decimal digits between leading and trailing whitespace
PaddedFourDigits(s) ==
    \E i \in 0..Len(s) :
        /\ i + 4 <= Len(s)
        /\ \A k \in 1..i : s[k] \in WhiteSpace
        /\ \A k \in (i + 1)..(i + 4) : s[k] \in DecimalDigits
        /\ \A k \in (i + 5)..Len(s) : s[k] \in WhiteSpace

\* C3 amended: parse_naca raises ValueError on every string that, with its
\* leading and trailing whitespace removed, is not exactly four decimal
\* digits, and returns parameters only for the strings that are.
C3_FourDigitsAfterStrip ==
    pc = "parse_naca_returned" =>
        /\ ret.ok <=> PaddedFourDigits(arg)
        /\ ~ret.ok => ret.exc = "ValueError"

C3_Witness ==
    /\ pc = "parse_naca_returned"
    /\ arg = <<" ", "2", "0", "0", "2">>
    /\ ret.ok
    /\ ret.m = 200 /\ ret.p = 0 /\ ret.t = 200

(***************************************************************************)
(* C4.  map_to_3d                                                          *)
(***************************************************************************)
AfterMapTo3d ==
    pc \in {"call_validate_geometry", "map_to_3d_raised",
            "validate_geometry_returned"}

\* the normal axis a recognized selector names, 1 = X, 2 = Y, 3 = Z
SelectedAxis(sel) ==
    CASE sel \in {<<"X">>, <<"x">>} -> 1
      [] sel \in {<<"Y">>, <<"y">>} -> 2
      [] sel \in {<<"Z">>, <<"z">>} -> 3

\* C4: for a selector X, Y or Z in either case map_to_3d returns one point
\* per 2D point, in order, zero on the normal axis, chord * x on the lower
\* and chord * y on the higher of the other two axes; any other selector
\* raises ValueError and yields no points.
C4_AxisMapping ==
    AfterMapTo3d =>
        IF arg.normal_axis \in NormalChoices
        THEN LET a  == SelectedAxis(arg.normal_axis)
                 lo == IF a = 1 THEN 2 ELSE 1
                 hi == IF a = 3 THEN 2 ELSE 3
             IN  /\ ret.ok
                 /\ Len(ret.coords) = Len(arg.loop)
                 /\ \A i \in 1..Len(arg.loop) :
                       /\ ret.coords[i][a] = Fin(0)
                       /\ ret.coords[i][lo] =
                             FloatMul(arg.chord_length, Fin(arg.loop[i][1]))
                       /\ ret.coords[i][hi] =
                             FloatMul(arg.chord_length, Fin(arg.loop[i][2]))
        ELSE /\ ~ret.ok
             /\ ret.exc = "ValueError"
             /\ ret.msg = "normal_axis must be X, Y, or Z"
             /\ ret.coords = <<>>

C4_Witness ==
    /\ AfterMapTo3d
    /\ arg.normal_axis = <<"x">>
    /\ arg.chord_length = Fin(-(2 * S))
    /\ arg.loop = <<<<S, 0>>, <<0, -S>>>>
    /\ ret.coords = <<<<Fin(0), Fin(-(2 * S)), Fin(0)>>,
                      <<Fin(0), Fin(0), Fin(2 * S)>>>>

(***************************************************************************)
(* C5.  validate_geometry                                                  *)
(***************************************************************************)
AllFinite(coords) ==
    \A i \in 1..Len(coords) : \A a \in 1..3 : coords[i][a].k = "fin"

AllCoincide(coords) ==
    \A i \in 1..Len(coords) : \A j \in 1..Len(coords) : coords[i] = coords[j]

DegenerateRaised ==
    /\ ~val.ok
    /\ val.exc = "ValueError"
    /\ val.msg = "Degenerate geometry: all output points identical!"

\* C5: on finite coordinates validate_geometry raises the degenerate-geometry
\* error exactly when all points coincide; code 0000 with chord 1 passes, and
\* chord 0 puts every point at the origin and is rejected.
C5_DegenerateIffAllCoincide ==
    (pc = "validate_geometry_returned" /\ AllFinite(ret.coords)) =>
        /\ DegenerateRaised <=> AllCoincide(ret.coords)
        /\ ~DegenerateRaised => val.ok
        /\ (arg.loop = Loop0000 /\ arg.chord_length = Fin(S)) => val.ok
        /\ arg.chord_length = Fin(0) =>
              /\ DegenerateRaised
              /\ \A i \in 1..Len(ret.coords) :
                    ret.coords[i] = <<Fin(0), Fin(0), Fin(0)>>

C5_Witness ==
    /\ pc = "validate_geometry_returned"
    /\ arg.loop = Loop0000
    /\ arg.chord_length = Fin(S)
    /\ arg.normal_axis = <<"Z">>
    /\ \A i \in 1..Len(ret.coords) : ret.coords[i][2] = Fin(0)
    /\ val.ok

(***************************************************************************)
(* C6.  The order of the stages of main, and what a core failure stops     *)
(***************************************************************************)
StageOrder == <<"generate", "embed", "validate", "write", "plot">>

\* the positions of stage st in the stages called so far
Calls(st) == {i \in 1..Len(stages) : stages[i] = st}

\* a core stage was called and raised
GenerateFailed == Calls("generate") # {} /\ ~gen.ok

EmbedFailed == Calls("embed") # {} /\ coords3d = <<>>

ValidateFailed == Calls("validate") # {} /\ ~val.ok

OutputStarted ==
    \/ Calls("write") # {}
    \/ Calls("plot") # {}
    \/ file # NoFile
    \/ plot.attempted

\* C6: the stages of main are called in the order generate, embed,
\* validate, write, plot; validation is called exactly once before any
\* output step, after embedding; and when a core stage raises, the run ends
\* there, with no point file written and no plot attempted.
C6_StageOrderAndCoreStop ==
    /\ \E k \in 0..Len(StageOrder) : stages = SubSeq(StageOrder, 1, k)
    /\ OutputStarted =>
          /\ Cardinality(Calls("validate")) = 1
          /\ \A v \in Calls("validate") :
                /\ \E e \in Calls("embed") : e < v
                /\ \A o \in Calls("write") \cup Calls("plot") : v < o
          /\ val.ok
    /\ (GenerateFailed \/ EmbedFailed \/ ValidateFailed) =>
          /\ pc \in {"exited", "crashed"}
          /\ exit_code = "1"
          /\ ~OutputStarted
          /\ ~ENABLED Next
    /\ GenerateFailed => stages = <<"generate">>
    /\ EmbedFailed => stages = <<"generate", "embed">>
    /\ ValidateFailed => stages = <<"generate", "embed", "validate">>

C6_Witness ==
    /\ pc = "exited"
    /\ stages = <<"generate", "embed", "validate">>
    /\ val.msg = "Degenerate geometry: all output points identical!"
    /\ file = NoFile

(***************************************************************************)
(* C7.  A plotting failure does not abort the run                          *)
(***************************************************************************)
\* the plot step raised, or warned that saving or showing failed
PlotFailed == plot.attempted /\ (plot.raised # "none" \/ plot.out # <<>>)

Printed(line) == \E i \in 1..Len(stdout) : stdout[i] = line

PlotWarnings ==
    {"Warning! failed to save plot to", "Warning! plt.show() failed.",
     "Skipping plotting step.", "Continuing without plot."}

\* C7: the plot is attempted only once the point file is written; when
\* plotting fails (no matplotlib, a rendering error, a failed save of the
\* PNG, a failed show) a warning is printed, the file stays as written, and
\* main goes on to its summary and ends normally.
C7_PlotFailureIsSoft ==
    /\ (pc = "plot" \/ plot.attempted) =>
          file = [state |-> "written", rows |-> coords3d]
    /\ PlotFailed =>
          /\ \E w \in PlotWarnings : Printed(w)
          /\ pc \in {"summary", "done"}
          /\ pc = "summary" => (exit_code = "running" /\ ENABLED Summary)
          /\ pc = "done" => (exit_code = "0" /\ Printed("Saved"))

C7_Witness ==
    /\ pc = "done"
    /\ plot.raised = "Exception"
    /\ Printed("Continuing without plot.")
    /\ Printed("Saved")
    /\ file.state = "written"
    /\ exit_code = "0"

(***************************************************************************)
(* C8.  A zero-camber code gives a loop symmetric about y = 0              *)
(***************************************************************************)
FourAsciiDigits(code) == code \in [1..4 -> AsciiDigits]

\* C8: for a code whose first digit is 0 and N points per surface, the loop
\* points at Python indexes N-1-j and N-1+j have the same x and opposite y,
\* for every j in 0..N-1.
C8_ZeroCamberSymmetric ==
    (pc = "generate_naca4_returned" /\ FourAsciiDigits(arg.code)
        /\ arg.code[1] = "0") =>
        /\ ret.ok
        /\ ret.n >= 3
        /\ \A j \in 0..(ret.n - 1) :
              /\ ret.x[ret.n - j] = ret.x[ret.n + j]
              /\ ret.y[ret.n - j] = -ret.y[ret.n + j]

C8_Witness ==
    /\ pc = "generate_naca4_returned"
    /\ arg = [code |-> <<"0", "0", "1", "2">>, n |-> 4]
    /\ ret.ok
    /\ ret.y[1] > 0 /\ ret.y[7] = -ret.y[1]
    /\ ret.y[2] > 0 /\ ret.y[6] = -ret.y[2]

(***************************************************************************)
(* C9.  The loop assembly                                                  *)
(***************************************************************************)
\* C9: with N = max(3, the count asked for), the loop is the upper surface
\* reversed, then the lower surface without its first point: 2N - 1 points,
\* the first and the last at the parameter x = 1, the leading-edge sample
\* (parameter index 0) once, at Python index N-1; the branch that keeps the
\* whole lower surface is not taken.
C9_LoopAssembly ==
    (pc = "generate_naca4_returned" /\ ret.ok) =>
        LET N == ret.n
        IN  /\ N = Max(3, arg.n)
            /\ Len(ret.xu) = N /\ Len(ret.xl) = N
            /\ Len(ret.x) = 2 * N - 1 /\ Len(ret.y) = 2 * N - 1
            /\ \A k \in 0..(N - 1) :
                  /\ ret.x[k + 1] = ret.xu[N - k]
                  /\ ret.y[k + 1] = ret.yu[N - k]
            /\ \A j \in 1..(N - 1) :
                  /\ ret.x[N + j] = ret.xl[j + 1]
                  /\ ret.y[N + j] = ret.yl[j + 1]
            /\ ret.xs[N] = S
            /\ ret.xs[1] = 0
            /\ \A i \in 2..N : ret.xs[i] > 0
            /\ ret.tail = "drop_first"

C9_Witness ==
    /\ pc = "generate_naca4_returned"
    /\ arg = [code |-> <<"2", "4", "1", "2">>, n |-> 1]
    /\ ret.ok
    /\ ret.n = 3
    /\ Len(ret.x) = 5
    /\ ret.yu[2] # -ret.yl[2]

(***************************************************************************)
(* C10.  The camber line never divides by zero                             *)
(***************************************************************************)
AllZero(s) == \A i \in 1..Len(s) : s[i] = 0

\* C10: on a four-digit code the camber evaluation raises no division by
\* zero.  With the camber digit or the location digit 0, the camber and its
\* slope are zero at every sample, neither formula is evaluated, and the loop
\* is that of the code with both digits 0.  Otherwise the location digit is
\* in 1..9, p^2 and (1-p)^2 are not zero, and every sample is evaluated by
\* exactly one of the forward and the aft formula.
C10_NoDivisionByZero ==
    (pc = "generate_naca4_returned" /\ FourAsciiDigits(arg.code)) =>
        /\ ret.ok
        /\ ret.exc # "ZeroDivisionError"
        /\ IF arg.code[1] = "0" \/ arg.code[2] = "0"
           THEN /\ AllZero(ret.cam.yc) /\ Len(ret.cam.yc) = ret.n
                /\ AllZero(ret.cam.dyc) /\ Len(ret.cam.dyc) = ret.n
                /\ ret.cam.fwd = {} /\ ret.cam.aft = {}
                /\ LET plain == generate_naca4(
                                   <<"0", "0", arg.code[3], arg.code[4]>>,
                                   Big(0, arg.n))
                   IN  ret.x = plain.x /\ ret.y = plain.y
           ELSE LET p == ret.params[2]
                IN  /\ DigitValue(arg.code[2]) \in 1..9
                    /\ p = DigitValue(arg.code[2]) * (S \div 10)
                    /\ FMul(p, p) # 0
                    /\ FMul(S - p, S - p) # 0
                    /\ ret.cam.fwd \cup ret.cam.aft = 1..ret.n
                    /\ ret.cam.fwd \cap ret.cam.aft = {}

C10_Witness ==
    /\ pc = "generate_naca4_returned"
    /\ arg = [code |-> <<"2", "0", "1", "2">>, n |-> 4]
    /\ ret.ok
    /\ ret.params = <<200, 0, 1200>>
    /\ ret.cam.fwd = {}
    /\ ret.y[1] > 0

====
